---- MODULE Spec2Model ----
(***************************************************************************)
(* click_from_docstring: the type/shape resolver (_get_param_type,         *)
(* _get_param_type_from_str), the parameter declaration builder            *)
(* (_get_param_decorator) and the command assembler (_CommandBuilder).     *)
(*                                                                         *)
(* Python text is a sequence of one-character strings, so that slicing,    *)
(* splitting, substring tests and concatenation are computed as Python     *)
(* computes them.  Python's None is the one-element sequence None, whose   *)
(* element is no character.                                                *)
(*                                                                         *)
(* click, docstring_parser, inspect and typing are external: a click       *)
(* parser or decorator is the record of the arguments the code constructs  *)
(* it with, a parsed docstring and a signature are inputs.                 *)
(***************************************************************************)
EXTENDS Integers, Sequences, FiniteSets, TLC

VARIABLES
    fn,              \* the callable: parsed __doc__, signature, annotations, __click_params__
    command_kwargs,  \* self.command_kwargs
    command,         \* self.command
    decorators,      \* self.decorators
    doc,             \* self.doc
    param_docs,      \* self.param_docs (a dict: entries in insertion order)
    sig,             \* self.sig (the parameters, in order)
    hints,           \* self.hints (name -> annotation)
    existing,        \* self.existing
    pc,              \* position of build()
    raised,          \* the exception that left build(), or "none"
    log,             \* the warnings logged
    call,            \* a direct call of a resolver function: its arguments
    ret              \* the outcome of that call

vars == <<fn, command_kwargs, command, decorators, doc, param_docs, sig, hints,
          existing, pc, raised, log, call, ret>>

-----------------------------------------------------------------------------
(* Bounds of the model *)

MaxParams == 2
MaxDocParams == 1

-----------------------------------------------------------------------------
(* Python text *)

None == <<"<None>">>

S_int == <<"i", "n", "t">>
S_float == <<"f", "l", "o", "a", "t">>
S_bytes == <<"b", "y", "t", "e", "s">>
S_bool == <<"b", "o", "o", "l">>
S_str == <<"s", "t", "r">>
S_list == <<"l", "i", "s", "t">>
S_tuple == <<"t", "u", "p", "l", "e">>
S_FileIO == <<"i", "o", ".", "F", "i", "l", "e", "I", "O">>
S_Path == <<"p", "a", "t", "h", "l", "i", "b", ".", "P", "a", "t", "h">>
S_datetime == <<"d", "a", "t", "e", "t", "i", "m", "e", ".",
                "d", "a", "t", "e", "t", "i", "m", "e">>
S_UUID == <<"u", "u", "i", "d", ".", "U", "U", "I", "D">>
S_save == <<"s", "a", "v", "e">>
S_output == <<"o", "u", "t", "p", "u", "t">>
S_write == <<"w", "r", "i", "t", "e">>
S_dir == <<"d", "i", "r">>
S_sqdash == <<"'", "-", "'">>
S_dqdash == <<"\"", "-", "\"">>
S_commaspace == <<",", " ">>

\* s[lo:hi] for 0 <= lo and 0 <= hi (Python slice bounds, clamped to len(s))
Slice(s, lo, hi) ==
    LET h == IF hi > Len(s) THEN Len(s) ELSE hi
    IN  IF lo >= h THEN <<>> ELSE SubSeq(s, lo + 1, h)

\* s[:n]
Prefix(s, n) == Slice(s, 0, n)

\* s[lo:-1]
SliceToLast(s, lo) == IF Len(s) = 0 THEN <<>> ELSE Slice(s, lo, Len(s) - 1)

\* s[lo:]
Suffix(s, lo) == Slice(s, lo, Len(s))

\* w in s
Contains(s, w) ==
    \E i \in 0..(Len(s) - Len(w)) : Slice(s, i, i + Len(w)) = w

\* s.find(sep): the first index of sep in s, or -1
Find(s, sep) ==
    IF Contains(s, sep)
    THEN CHOOSE i \in 0..(Len(s) - Len(sep)) :
             /\ Slice(s, i, i + Len(sep)) = sep
             /\ \A j \in 0..(i - 1) : Slice(s, j, j + Len(sep)) # sep
    ELSE -1

\* s.split(sep) for a non-empty sep
RECURSIVE Split(_, _)
Split(s, sep) ==
    LET i == Find(s, sep)
    IN  IF i = -1 THEN <<s>>
        ELSE <<Prefix(s, i)>> \o Split(Suffix(s, i + Len(sep)), sep)

\* s.replace(old, new) for one-character old and new
Replace(s, old, new) == [i \in 1..Len(s) |-> IF s[i] = old THEN new ELSE s[i]]

-----------------------------------------------------------------------------
(* _ParamArgs and the click parameter types *)

ParamArgs == {"flag", "single", "multiple"}

NoType == [tag |-> "None"]                 \* type=None: click's default handling
IntType == [tag |-> "int"]
FloatType == [tag |-> "float"]
BytesType == [tag |-> "bytes"]
BoolType == [tag |-> "bool"]
DateTimeType == [tag |-> "DateTime"]
UUIDType == [tag |-> "UUID"]
FileType(mode) == [tag |-> "File", mode |-> mode]
PathType(exists, file_okay, dir_okay, writable, readable, allow_dash) ==
    [tag |-> "Path", exists |-> exists, file_okay |-> file_okay,
     dir_okay |-> dir_okay, writable |-> writable, readable |-> readable,
     allow_dash |-> allow_dash]
\* click.Tuple(types): types are the values the code hands over
TupleType(types) == [tag |-> "Tuple", types |-> types]

\* the outcome of a resolver call: a returned pair, or an exception
Returned(args, type, warnings) ==
    [exc |-> "none", args |-> args, type |-> type, log |-> warnings]
Raises(exc, warnings) ==
    [exc |-> exc, args |-> "none", type |-> NoType, log |-> warnings]

\* the pair (args, type) as a Python value
Pair(r) == [args |-> r.args, type |-> r.type]

_build_file_param_type(param_description) ==
    LET output == \E w \in {S_save, S_output, S_write} : Contains(param_description, w)
        mode == (IF output THEN <<"w">> ELSE <<"r">>)
                \o (IF Contains(param_description, S_bytes) THEN <<"b">> ELSE <<>>)
    IN  FileType(mode)

_build_path_param_type(param_description) ==
    LET output == \E w \in {S_save, S_output, S_write} : Contains(param_description, w)
        is_dir == Contains(param_description, S_dir)
    IN  PathType(~output, ~is_dir, is_dir, output, ~output,
                 Contains(param_description, S_sqdash)
                     \/ Contains(param_description, S_dqdash))

-----------------------------------------------------------------------------
(* Documentation entries and annotations *)

\* param_doc is None
NoDoc == [absent |-> TRUE]
DocParam(arg_name, type_name, description) ==
    [arg_name |-> arg_name, type_name |-> type_name, description |-> description]

\* Annotation objects.  A parameter without annotation has the hint None.
\* typing.List[T] and typing.Tuple[...] are not classes ("alias": Python 3.7
\* and later, typing._GenericAlias) or are classes deriving from list and
\* tuple ("generic_class": Python 3.6, typing.GenericMeta).
HintNone == [kind |-> "none"]
Class(cls) == [kind |-> "class", cls |-> cls]
Alias(origin, args) == [kind |-> "alias", origin |-> origin, args |-> args]
GenericClass(origin, args) ==
    [kind |-> "generic_class", origin |-> origin, args |-> args]
ParamTypeInstance(type) == [kind |-> "paramtype", type |-> type]
\* the tuple param_hint.__args__ itself, as handed on at line 107
ArgsTuple(args) == [kind |-> "argstuple", args |-> args]

\* the classes an annotation can name here, and their parser when used as type=
ClassParser(cls) ==
    CASE cls = "int" -> IntType
      [] cls = "float" -> FloatType
      [] cls = "bytes" -> BytesType
      [] cls = "bool" -> BoolType
      [] OTHER -> NoType

\* issubclass() raises TypeError unless its first argument is a class
IsClassObject(h) == h.kind \in {"class", "generic_class"}

\* the class a class object is, for issubclass: its own name, or the builtin
\* that a Python 3.6 generic derives from
ClassName(h) == IF h.kind = "class" THEN h.cls ELSE h.origin

\* issubclass(cls, base) over the classes of the model: bool derives from int
SubclassOf(cls, base) == cls = base \/ (cls = "bool" /\ base = "int")

\* getattr(param_hint, "__origin__", type)
HintOrigin(h) == IF h.kind \in {"alias", "generic_class"} THEN h.origin ELSE "type"

-----------------------------------------------------------------------------
(* The type/shape resolver *)

\* the outcomes of the element calls of a generator consumed by click.Tuple:
\* the first exception leaves the call, else the pairs are the tuple's types
RECURSIVE TupleOf(_, _)
TupleOf(results, warnings) ==
    IF results = <<>> THEN Returned("single", TupleType(<<>>), warnings)
    ELSE LET r == Head(results)
         IN  IF r.exc # "none" THEN Raises(r.exc, warnings \o r.log)
             ELSE LET rest == TupleOf(Tail(results), warnings \o r.log)
                  IN  IF rest.exc # "none" THEN rest
                      ELSE Returned("single",
                                    TupleType(<<Pair(r)>> \o rest.type.types),
                                    rest.log)

RECURSIVE _get_param_type_from_str(_, _)
_get_param_type_from_str(type_name_arg, param_doc) ==
    LET type_name == IF type_name_arg = None THEN <<>> ELSE type_name_arg
        desc == IF param_doc = NoDoc THEN <<>> ELSE param_doc.description
    IN  CASE type_name = S_int -> Returned("single", IntType, <<>>)
          [] type_name = S_float -> Returned("single", FloatType, <<>>)
          [] type_name = S_bytes -> Returned("single", BytesType, <<>>)
          [] type_name = S_bool -> Returned("flag", NoType, <<>>)
          [] type_name \notin {S_int, S_float, S_bytes, S_bool}
             /\ Prefix(type_name, 4) = S_list ->
                LET r == _get_param_type_from_str(SliceToLast(type_name, 5), param_doc)
                IN  IF r.exc # "none" THEN r
                    ELSE IF r.args # "single" THEN Raises("AssertionError", r.log)
                    ELSE Returned("multiple", r.type, r.log)
          [] Prefix(type_name, 4) # S_list /\ Prefix(type_name, 5) = S_tuple ->
                LET element_names == Split(SliceToLast(type_name, 6), S_commaspace)
                    elements == [i \in 1..Len(element_names) |->
                                    _get_param_type_from_str(element_names[i], NoDoc)]
                IN  TupleOf(elements, <<>>)
          [] type_name = S_FileIO -> Returned("single", _build_file_param_type(desc), <<>>)
          [] type_name = S_Path -> Returned("single", _build_path_param_type(desc), <<>>)
          [] type_name = S_datetime -> Returned("single", DateTimeType, <<>>)
          [] type_name = S_UUID -> Returned("single", UUIDType, <<>>)
          [] OTHER -> Returned("single", NoType, <<"name">>)

RECURSIVE _get_param_type(_, _)
_get_param_type(param_hint, param_doc) ==
    LET desc == IF param_doc = NoDoc THEN <<>> ELSE param_doc.description
        hint_origin == HintOrigin(param_hint)
    IN  IF param_hint.kind = "paramtype"
        THEN Returned("single", param_hint.type, <<>>)
        ELSE IF ~IsClassObject(param_hint)
        THEN Raises("TypeError", <<>>)          \* issubclass() arg 1 must be a class
        ELSE IF \E b \in {"int", "float", "bytes"} : SubclassOf(ClassName(param_hint), b)
        THEN Returned("single", ClassParser(ClassName(param_hint)), <<>>)
        ELSE IF SubclassOf(ClassName(param_hint), "bool")
        THEN Returned("flag", NoType, <<>>)
        ELSE IF SubclassOf(ClassName(param_hint), "list")
        THEN Returned("multiple", NoType, <<>>)
        ELSE IF SubclassOf(hint_origin, "list")
        THEN LET r == _get_param_type(ArgsTuple(param_hint.args), param_doc)
             IN  IF r.exc # "none" THEN r
                 ELSE IF r.args # "single" THEN Raises("AssertionError", r.log)
                 ELSE Returned("multiple", r.type, r.log)
        ELSE IF SubclassOf(hint_origin, "tuple")
        THEN TupleOf([i \in 1..Len(param_hint.args) |->
                         _get_param_type(param_hint.args[i], NoDoc)], <<>>)
        ELSE IF SubclassOf(hint_origin, "io.FileIO")
        THEN Returned("single", _build_file_param_type(desc), <<>>)
        ELSE IF SubclassOf(hint_origin, "pathlib.Path")
        THEN Returned("single", _build_path_param_type(desc), <<>>)
        ELSE IF SubclassOf(hint_origin, "datetime.datetime")
        THEN Returned("single", DateTimeType, <<>>)
        ELSE IF SubclassOf(hint_origin, "uuid.UUID")
        THEN Returned("single", UUIDType, <<>>)
        ELSE IF param_hint = HintNone /\ param_doc # NoDoc
        THEN _get_param_type_from_str(param_doc.type_name, NoDoc)
        ELSE Returned("single", NoType, <<"type-hint">>)

-----------------------------------------------------------------------------
(* The parameter declaration builder *)

NamedParamKinds == {"POSITIONAL_ONLY", "POSITIONAL_OR_KEYWORD", "KEYWORD_ONLY"}
ParamKinds == NamedParamKinds \cup {"VAR_POSITIONAL", "VAR_KEYWORD"}

\* inspect.Parameter; default "empty" is Parameter.empty
Parameter(name, kind, default) == [name |-> name, kind |-> kind, default |-> default]

\* the click decorators, as the arguments they are constructed with
\* (nargs and multiple are "unset" / "None" where the code leaves them out)
Argument(name, type, nargs) ==
    [deco |-> "argument", name |-> name, type |-> type, nargs |-> nargs]
Option(name, default, help, type, multiple) ==
    [deco |-> "option", name |-> name, default |-> default, help |-> help,
     type |-> type, multiple |-> multiple]
PassThrough == [deco |-> "lambda"]
CommandDecorator(kwargs) == [deco |-> "command", kwargs |-> kwargs]

Built(decorator) == [exc |-> "none", decorator |-> decorator]
BuildRaises(exc) == [exc |-> exc, decorator |-> PassThrough]

\* "--" + name.replace("_", "-")
OptionName(name) == <<"-", "-">> \o Replace(name, "_", "-")
\* ... + "/--no-" + name.replace("_", "-")
FlagName(name) ==
    OptionName(name) \o <<"/", "-", "-", "n", "o", "-">> \o Replace(name, "_", "-")

\* _get_param_decorator without "nargs=-1" at line 147
GetParamDecoratorNoNargs(param, param_args, param_type, param_doc) ==
    IF param.kind \in NamedParamKinds
    THEN IF param.default = "empty"
         THEN IF param_args = "flag" THEN BuildRaises("AssertionError")
              ELSE Built(Argument(param.name, param_type, "unset"))
         ELSE LET name == IF param_args = "flag" THEN FlagName(param.name)
                          ELSE OptionName(param.name)
                  multiple == IF param_args = "multiple" THEN "True" ELSE "None"
              IN  IF param_doc = NoDoc
                  THEN BuildRaises("AttributeError")
                  ELSE Built(Option(name, param.default, param_doc.description,
                                    param_type, multiple))
    ELSE IF param.kind = "VAR_POSITIONAL"
    THEN IF param_args # "single" THEN BuildRaises("AssertionError")
         ELSE Built(Argument(param.name, param_type, "-1"))
    ELSE IF param.kind = "VAR_KEYWORD"
    THEN Built(PassThrough)
    ELSE BuildRaises("ValueError")

\* _get_param_decorator without the assertion of line 164
GetParamDecoratorNoAssert(param, param_args, param_type, param_doc) ==
    IF param.kind \in NamedParamKinds
    THEN IF param.default = "empty"
         THEN IF param_args = "flag" THEN BuildRaises("AssertionError")
              ELSE IF param_args = "multiple"
              THEN Built(Argument(param.name, param_type, "-1"))
              ELSE Built(Argument(param.name, param_type, "unset"))
         ELSE LET name == IF param_args = "flag" THEN FlagName(param.name)
                          ELSE OptionName(param.name)
                  multiple == IF param_args = "multiple" THEN "True" ELSE "None"
              IN  IF param_doc = NoDoc
                  THEN BuildRaises("AttributeError")
                  ELSE Built(Option(name, param.default, param_doc.description,
                                    param_type, multiple))
    ELSE IF param.kind = "VAR_POSITIONAL"
    THEN Built(Argument(param.name, param_type, "-1"))
    ELSE IF param.kind = "VAR_KEYWORD"
    THEN Built(PassThrough)
    ELSE BuildRaises("ValueError")

_get_param_decorator(param, param_args, param_type, param_doc) ==
    IF param.kind \in NamedParamKinds
    THEN IF param.default = "empty"
         THEN IF param_args = "flag" THEN BuildRaises("AssertionError")
              ELSE IF param_args = "multiple"
              THEN Built(Argument(param.name, param_type, "-1"))
              ELSE Built(Argument(param.name, param_type, "unset"))
         ELSE LET name == IF param_args = "flag" THEN FlagName(param.name)
                          ELSE OptionName(param.name)
                  multiple == IF param_args = "multiple" THEN "True" ELSE "None"
              IN  IF param_doc = NoDoc
                  THEN BuildRaises("AttributeError")   \* None.description
                  ELSE Built(Option(name, param.default, param_doc.description,
                                    param_type, multiple))
    ELSE IF param.kind = "VAR_POSITIONAL"
    THEN IF param_args # "single" THEN BuildRaises("AssertionError")
         ELSE Built(Argument(param.name, param_type, "-1"))
    ELSE IF param.kind = "VAR_KEYWORD"
    THEN Built(PassThrough)
    ELSE BuildRaises("ValueError")

-----------------------------------------------------------------------------
(* _CommandBuilder *)

\* a dict in insertion order: a sequence of entries with distinct keys
Entry(key, value) == [key |-> key, value |-> value]
Keys(d) == {d[i].key : i \in 1..Len(d)}
\* d.get(key): the value, or None
DictGet(d, key, default) ==
    IF key \in Keys(d) THEN d[CHOOSE i \in 1..Len(d) : d[i].key = key].value
    ELSE default
\* d[key] = value
DictSet(d, key, value) ==
    IF key \in Keys(d)
    THEN [i \in 1..Len(d) |-> IF d[i].key = key THEN Entry(key, value) ELSE d[i]]
    ELSE Append(d, Entry(key, value))

\* {m.arg_name: m for m in params}
RECURSIVE ParamDocsOf(_)
ParamDocsOf(params) ==
    IF params = <<>> THEN <<>>
    ELSE LET m == params[Len(params)]
         IN  DictSet(ParamDocsOf(SubSeq(params, 1, Len(params) - 1)), m.arg_name, m)

\* docstring_parser.Docstring
Docstring(short_description, long_description, blank, params) ==
    [short_description |-> short_description, long_description |-> long_description,
     blank_after_short_description |-> blank, params |-> params]

NoCommand == [kind |-> "None"]
NoDocstring == [kind |-> "None"]
NoCall == [fn |-> "none"]

\* HelpOf with the separator "\n" whatever the documentation's flag
HelpOfSingleNewline(d) ==
    d.short_description \o <<"\n">> \o d.long_description

\* the help text _create_command builds; str + None raises TypeError
HelpOf(d) ==
    d.short_description
    \o (IF d.blank_after_short_description THEN <<"\n", "\n">> ELSE <<"\n">>)
    \o d.long_description

\* AlreadyDeclared without the test of line 227
AlreadyDeclaredNever(name, exist) == FALSE

\* "if name in self.existing: continue"
AlreadyDeclared(name, exist) == name \in exist

\* the loop of _add_parameters from parameter i on: the decorators and the
\* warnings so far, until the first exception
RECURSIVE AddParametersFrom(_, _, _, _, _, _, _)
AddParametersFrom(i, params, exist, pdocs, hs, decs, warnings) ==
    IF i > Len(params)
    THEN [exc |-> "none", decorators |-> decs, log |-> warnings]
    ELSE LET param == params[i]
             name == param.name
         IN  IF AlreadyDeclared(name, exist)
             THEN AddParametersFrom(i + 1, params, exist, pdocs, hs, decs, warnings)
             ELSE LET param_doc == DictGet(pdocs, name, NoDoc)
                      param_hint == IF name \in DOMAIN hs THEN hs[name] ELSE HintNone
                      r == _get_param_type(param_hint, param_doc)
                  IN  IF r.exc # "none"
                      THEN [exc |-> r.exc, decorators |-> decs,
                            log |-> warnings \o r.log]
                      ELSE LET d == _get_param_decorator(param, r.args, r.type,
                                                         param_doc)
                           IN  IF d.exc # "none"
                               THEN [exc |-> d.exc, decorators |-> decs,
                                     log |-> warnings \o r.log]
                               ELSE AddParametersFrom(
                                        i + 1, params, exist, pdocs, hs,
                                        Append(decs, d.decorator),
                                        warnings \o r.log)

\* self.sig.parameters.get(name)
SigGet(params, name) ==
    IF \E i \in 1..Len(params) : params[i].name = name
    THEN params[CHOOSE i \in 1..Len(params) : params[i].name = name]
    ELSE Parameter(None, "none", "empty")

\* the loop of _add_kwargs from key i of param_docs on.  Iterating the dict
\* yields its keys, and "name, param_doc = key" unpacks the key's characters:
\* ValueError unless the key has two of them; param_doc is then a
\* one-character str, and param_doc.type_name raises AttributeError.
RECURSIVE AddKwargsFrom(_, _, _, _, _)
AddKwargsFrom(i, pdocs, exist, params, decs) ==
    IF i > Len(pdocs)
    THEN [exc |-> "none", decorators |-> decs]
    ELSE LET key == pdocs[i].key
         IN  IF Len(key) # 2
             THEN [exc |-> "ValueError", decorators |-> decs]
             ELSE LET name == <<key[1]>>
                      param == SigGet(params, name)
                  IN  IF name \in exist
                      THEN AddKwargsFrom(i + 1, pdocs, exist, params, decs)
                      ELSE IF param.name # None /\ param.kind # "VAR_KEYWORD"
                      THEN AddKwargsFrom(i + 1, pdocs, exist, params, decs)
                      ELSE [exc |-> "AttributeError", decorators |-> decs]

\* decorator(command)
ApplyDecorator(d, cmd) ==
    IF d.deco = "command"
    THEN [kind |-> "Command", callback |-> cmd, kwargs |-> d.kwargs, params |-> <<>>]
    ELSE IF d.deco = "lambda" THEN cmd
    ELSE IF cmd.kind = "Command"
    THEN [cmd EXCEPT !.params = Append(@, d)]
    ELSE [cmd EXCEPT !.click_params = Append(@, d)]

\* the loop of _finalise
RECURSIVE ComposeFrom(_, _, _)
ComposeFrom(i, decs, cmd) ==
    IF i > Len(decs) THEN cmd
    ELSE ComposeFrom(i + 1, decs, ApplyDecorator(decs[i], cmd))

-----------------------------------------------------------------------------
(* The callables a command is built from *)

N_a == <<"a">>
N_x_y == <<"x", "_", "y">>
N_kw == <<"k", "w">>
N_ab == <<"a", "b">>

\* the name of the i-th parameter of a signature
ParamNameAt(i) == CASE i = 1 -> N_x_y [] i = 2 -> N_a [] OTHER -> N_kw

\* no annotation, and one annotation for each way _get_param_type returns for
\* a class (bool: line 101, as int, float and bytes; list: line 105; str: line 128)
BuildHints == {HintNone, Class("bool"), Class("str"), Class("list")}

\* a parameter of a def: kind, default, annotation
ParamShapes ==
    [kind : NamedParamKinds, default : {"empty", "2"}, annotation : BuildHints]
    \cup [kind : {"VAR_POSITIONAL", "VAR_KEYWORD"}, default : {"empty"},
          annotation : BuildHints]

KindRank(kind) ==
    CASE kind = "POSITIONAL_ONLY" -> 1
      [] kind = "POSITIONAL_OR_KEYWORD" -> 2
      [] kind = "VAR_POSITIONAL" -> 3
      [] kind = "KEYWORD_ONLY" -> 4
      [] kind = "VAR_KEYWORD" -> 5

\* what Python accepts as a parameter list: kinds in order, one *args and one
\* **kwargs at most, no positional parameter without default after one with
ValidSignature(ps) ==
    \A i, j \in 1..Len(ps) :
        i < j =>
            /\ KindRank(ps[i].kind) <= KindRank(ps[j].kind)
            /\ ps[i].kind = ps[j].kind => ps[i].kind \in NamedParamKinds
            /\ (KindRank(ps[j].kind) <= 2 /\ ps[i].default # "empty")
                   => ps[j].default # "empty"

Signatures ==
    UNION {{[i \in 1..n |-> [name |-> ParamNameAt(i), kind |-> ps[i].kind,
                             default |-> ps[i].default,
                             annotation |-> ps[i].annotation]] :
               ps \in {qs \in [1..n -> ParamShapes] : ValidSignature(qs)}} :
           n \in 0..MaxParams}

D_text == <<"d">>
DocEntries ==
    {DocParam(N_x_y, S_bool, D_text), DocParam(N_ab, None, D_text)}

DocParamLists == UNION {[1..n -> DocEntries] : n \in 0..MaxDocParams}

T_short == <<"S", ".">>
T_long == <<"L", ".">>
T_help == <<"H">>

\* docstring_parser.parse(fn.__doc__): no docstring at all, a summary alone,
\* a summary and a long description on the next line or after a blank line
Docstrings ==
    {Docstring(None, None, FALSE, <<>>)}
    \cup {Docstring(T_short, None, FALSE, ps) : ps \in DocParamLists}
    \cup {Docstring(T_short, T_long, b, ps) : b \in BOOLEAN, ps \in DocParamLists}

\* fn.__click_params__: absent, or the names click decorators declared before
ClickParams ==
    {[has |-> FALSE, names |-> {}], [has |-> TRUE, names |-> {N_a}]}

Callables == [doc : Docstrings, parameters : Signatures, click_params : ClickParams]

\* command(**kwargs)
EmptyDict == <<>>
CommandKwargs == {EmptyDict, [help |-> T_help]}

-----------------------------------------------------------------------------
(* build(): one action for each step *)

Init ==
    /\ fn \in Callables
    /\ command_kwargs \in CommandKwargs
    /\ command = NoCommand
    /\ decorators = <<>>
    /\ doc = NoDocstring
    /\ param_docs = None
    /\ sig = None
    /\ hints = None
    /\ existing = {}
    /\ pc = "created"
    /\ raised = "none"
    /\ log = <<>>
    /\ call = NoCall
    /\ ret = NoCall

_inspect_fn ==
    /\ pc = "created"
    /\ doc' = fn.doc
    /\ param_docs' = ParamDocsOf(fn.doc.params)
    /\ sig' = [i \in 1..Len(fn.parameters) |->
                  Parameter(fn.parameters[i].name, fn.parameters[i].kind,
                            fn.parameters[i].default)]
    /\ hints' = [n \in {fn.parameters[i].name : i \in
                           {j \in 1..Len(fn.parameters) :
                               fn.parameters[j].annotation # HintNone}} |->
                    fn.parameters[CHOOSE i \in 1..Len(fn.parameters) :
                                      fn.parameters[i].name = n].annotation]
    /\ existing' = IF fn.click_params.has THEN fn.click_params.names ELSE existing
    /\ pc' = "inspected"
    /\ UNCHANGED <<fn, command_kwargs, command, decorators, raised, log, call, ret>>

_create_command ==
    /\ pc = "inspected"
    /\ IF "help" \in DOMAIN command_kwargs
       THEN /\ decorators' = Append(decorators, CommandDecorator(command_kwargs))
            /\ pc' = "command_created"
            /\ raised' = raised
       ELSE IF doc.short_description = None \/ doc.long_description = None
       THEN /\ decorators' = decorators
            /\ pc' = "raised"
            /\ raised' = "TypeError"
       ELSE /\ decorators' =
                Append(decorators,
                       CommandDecorator(
                           [k \in DOMAIN command_kwargs \cup {"help"} |->
                               IF k = "help" THEN HelpOf(doc) ELSE command_kwargs[k]]))
            /\ pc' = "command_created"
            /\ raised' = raised
    /\ UNCHANGED <<fn, command_kwargs, command, doc, param_docs, sig, hints,
                   existing, log, call, ret>>

_add_parameters ==
    /\ pc = "command_created"
    /\ LET r == AddParametersFrom(1, sig, existing, param_docs, hints,
                                  decorators, <<>>)
       IN  /\ decorators' = r.decorators
           /\ log' = log \o r.log
           /\ raised' = r.exc
           /\ pc' = IF r.exc = "none" THEN "parameters_added" ELSE "raised"
    /\ UNCHANGED <<fn, command_kwargs, command, doc, param_docs, sig, hints,
                   existing, call, ret>>

_add_kwargs ==
    /\ pc = "parameters_added"
    /\ LET r == IF \A i \in 1..Len(sig) : sig[i].kind # "VAR_KEYWORD"
                THEN [exc |-> "none", decorators |-> decorators]
                ELSE AddKwargsFrom(1, param_docs, existing, sig, decorators)
       IN  /\ decorators' = r.decorators
           /\ raised' = r.exc
           /\ pc' = IF r.exc = "none" THEN "kwargs_added" ELSE "raised"
    /\ UNCHANGED <<fn, command_kwargs, command, doc, param_docs, sig, hints,
                   existing, log, call, ret>>

_finalise ==
    /\ pc = "kwargs_added"
    /\ command' = ComposeFrom(1, decorators, [kind |-> "function"])
    /\ pc' = "finalised"
    /\ UNCHANGED <<fn, command_kwargs, decorators, doc, param_docs, sig, hints,
                   existing, raised, log, call, ret>>

Next ==
    \/ _inspect_fn
    \/ _create_command
    \/ _add_parameters
    \/ _add_kwargs
    \/ _finalise

Spec == Init /\ [][Next]_vars

-----------------------------------------------------------------------------
(* The resolver functions called directly, on inputs of their own *)

S_empty == <<>>
ListOf(element) == S_list \o <<"[">> \o element \o <<"]">>
TupleOf1(e1) == S_tuple \o <<"(">> \o e1 \o <<")">>
TupleOf2(e1, e2) == S_tuple \o <<"(">> \o e1 \o S_commaspace \o e2 \o <<")">>

\* the supported scalar type names, and the annotation of the same type
ScalarNames == {S_int, S_float, S_bytes}
TypeNames ==
    {None, S_empty, S_int, S_float, S_bytes, S_bool, S_str,
     ListOf(S_int), ListOf(S_float), ListOf(S_bool), ListOf(ListOf(S_int)),
     ListOf(TupleOf1(S_int)), TupleOf2(S_int, S_float), TupleOf2(S_float, S_bool),
     TupleOf1(ListOf(S_int)), S_FileIO, S_Path, S_datetime, S_UUID}

ScalarClasses == {Class("int"), Class("float"), Class("bytes")}
ResolveHints ==
    {HintNone, Class("int"), Class("float"), Class("bytes"), Class("bool"),
     Class("str"), Class("list"), Class("tuple"), Class("io.FileIO"),
     Class("pathlib.Path"), Class("datetime.datetime"), Class("uuid.UUID"),
     ParamTypeInstance(UUIDType)}
    \cup {Alias("list", <<e>>) : e \in ScalarClasses}
    \cup {GenericClass("list", <<e>>) : e \in ScalarClasses}
    \cup {Alias("list", <<Alias("list", <<Class("int")>>)>>),
          GenericClass("list", <<GenericClass("list", <<Class("int")>>)>>),
          Alias("tuple", <<Class("int"), Class("float")>>),
          GenericClass("tuple", <<Class("int"), Class("float")>>),
          GenericClass("tuple", <<Class("float"), Class("bool")>>)}

D_save == <<"t", "o", " ">> \o S_save
D_Save == <<"S", "a", "v", "e">>
D_output_dir == S_output \o <<" ">> \o S_dir
D_write_bytes == S_write \o <<" ">> \o S_bytes
D_dash == <<"o", "r", " ">> \o S_sqdash
Descriptions == {S_empty, D_text, D_save, D_Save, D_output_dir, D_write_bytes, D_dash}

ResolveDocs ==
    {NoDoc} \cup {DocParam(N_a, tn, d) : tn \in TypeNames, d \in Descriptions}

Calls ==
    [fn : {"_get_param_type"}, param_hint : ResolveHints, param_doc : ResolveDocs]
    \cup [fn : {"_get_param_type_from_str"}, type_name : TypeNames,
          param_doc : {NoDoc} \cup {DocParam(N_a, None, d) : d \in Descriptions}]

InitResolve ==
    /\ fn = [kind |-> "None"]
    /\ command_kwargs = EmptyDict
    /\ command = NoCommand
    /\ decorators = <<>>
    /\ doc = NoDocstring
    /\ param_docs = None
    /\ sig = None
    /\ hints = None
    /\ existing = {}
    /\ pc = "resolve"
    /\ raised = "none"
    /\ log = <<>>
    /\ call \in Calls
    /\ ret = NoCall

CallGetParamType ==
    /\ pc = "resolve"
    /\ ret = NoCall
    /\ call.fn = "_get_param_type"
    /\ ret' = _get_param_type(call.param_hint, call.param_doc)
    /\ log' = log \o ret'.log
    /\ UNCHANGED <<fn, command_kwargs, command, decorators, doc, param_docs, sig,
                   hints, existing, pc, raised, call>>

CallGetParamTypeFromStr ==
    /\ pc = "resolve"
    /\ ret = NoCall
    /\ call.fn = "_get_param_type_from_str"
    /\ ret' = _get_param_type_from_str(call.type_name, call.param_doc)
    /\ log' = log \o ret'.log
    /\ UNCHANGED <<fn, command_kwargs, command, decorators, doc, param_docs, sig,
                   hints, existing, pc, raised, call>>

NextResolve == CallGetParamType \/ CallGetParamTypeFromStr

SpecResolve == InitResolve /\ [][NextResolve]_vars

-----------------------------------------------------------------------------
(* The claims: what they speak of *)

AfterParameters == {"parameters_added", "kwargs_added", "finalised"}

\* the reflected parameters the build processes, in order
Processed == {i \in 1..Len(sig) : sig[i].name \notin existing}
\* the place in self.decorators of the transform of processed parameter i:
\* after the command-creation transform and the processed parameters before i
DeclIndex(i) == 1 + Cardinality({j \in Processed : j <= i})

HintOf(i) == IF sig[i].name \in DOMAIN hints THEN hints[sig[i].name] ELSE HintNone
DocOf(i) == DictGet(param_docs, sig[i].name, NoDoc)

HasVarKeyword == \E i \in 1..Len(sig) : sig[i].kind = "VAR_KEYWORD"
\* the documented names that are no reflected non-variadic parameter and not
\* in the existing set, in documentation order
IsExtra(key) ==
    /\ key \notin existing
    /\ \A i \in 1..Len(sig) : sig[i].name = key => sig[i].kind = "VAR_KEYWORD"
RECURSIVE ExtrasOf(_)
ExtrasOf(d) ==
    IF d = <<>> THEN <<>>
    ELSE (IF IsExtra(Head(d).key) THEN <<Head(d)>> ELSE <<>>) \o ExtrasOf(Tail(d))
Extras == IF HasVarKeyword THEN ExtrasOf(param_docs) ELSE <<>>

\* the arity and parser the rules of the resolver assign to a documented type name
RuleFor(type_name, description) ==
    CASE type_name = S_int -> Returned("single", IntType, <<>>)
      [] type_name = S_float -> Returned("single", FloatType, <<>>)
      [] type_name = S_bytes -> Returned("single", BytesType, <<>>)
      [] type_name = S_bool -> Returned("flag", NoType, <<>>)
      [] type_name = ListOf(S_int) -> Returned("multiple", IntType, <<>>)
      [] type_name = ListOf(S_float) -> Returned("multiple", FloatType, <<>>)
      [] type_name = S_FileIO ->
             Returned("single", _build_file_param_type(description), <<>>)
      [] type_name = S_Path ->
             Returned("single", _build_path_param_type(description), <<>>)
      [] type_name = S_datetime -> Returned("single", DateTimeType, <<>>)
      [] type_name = S_UUID -> Returned("single", UUIDType, <<>>)
RuledTypeNames ==
    {S_int, S_float, S_bytes, S_bool, ListOf(S_int), ListOf(S_float), S_FileIO,
     S_Path, S_datetime, S_UUID}

ScalarNameParser(e) ==
    CASE e = S_int -> IntType [] e = S_float -> FloatType [] e = S_bytes -> BytesType
ScalarClassParser(e) ==
    CASE e = Class("int") -> IntType
      [] e = Class("float") -> FloatType
      [] e = Class("bytes") -> BytesType

-----------------------------------------------------------------------------
(* The claims *)

\* C1: _get_param_type, called for a parameter without annotation whose
\* documentation entry gives a type name, returns the arity and parser the
\* rules assign to that type name; called for a parameter with an annotation,
\* it returns what it returns for any other documented type name.
C1_DocumentedTypeResolved ==
    (call.fn = "_get_param_type" /\ ret # NoCall) =>
        /\ (/\ call.param_hint = HintNone
            /\ call.param_doc # NoDoc
            /\ call.param_doc.type_name \in RuledTypeNames)
               => ret = RuleFor(call.param_doc.type_name,
                                call.param_doc.description)
        /\ (call.param_hint # HintNone /\ call.param_doc # NoDoc)
               => \A tn \in TypeNames :
                      ret = _get_param_type(call.param_hint,
                                            [call.param_doc EXCEPT !.type_name = tn])

\* C2: once the parameters are added, every processed parameter of a named
\* kind with a default and annotated bool is declared as the option
\* "--<name>/--no-<name>" (underscores as hyphens), without parser, with the
\* parameter's default.
C2_BoolOptionIsFlag ==
    pc \in AfterParameters =>
        \A i \in Processed :
            (/\ sig[i].kind \in NamedParamKinds
             /\ sig[i].default # "empty"
             /\ HintOf(i) = Class("bool"))
                => /\ decorators[DeclIndex(i)].deco = "option"
                   /\ decorators[DeclIndex(i)].name = FlagName(sig[i].name)
                   /\ decorators[DeclIndex(i)].type = NoType
                   /\ decorators[DeclIndex(i)].default = sig[i].default

\* C3: in a completed build, a parameter of a named kind without default is
\* never declared as an option or a flag; the build declares it (unless it is
\* in the existing set, and then declares nothing for it) as the positional
\* argument of its name, with nargs=-1 exactly when its arity is Multiple, and
\* the command holds that argument.
C3_RequiredIsArgument ==
    pc = "finalised" =>
        \A i \in 1..Len(sig) :
            (sig[i].kind \in NamedParamKinds /\ sig[i].default = "empty")
                => /\ \A k \in 1..Len(decorators) :
                          decorators[k].deco = "option"
                              => decorators[k].name \notin
                                     {OptionName(sig[i].name), FlagName(sig[i].name)}
                   /\ i \in Processed
                          => LET d == decorators[DeclIndex(i)]
                                 r == _get_param_type(HintOf(i), DocOf(i))
                             IN  /\ d.deco = "argument"
                                 /\ d.name = sig[i].name
                                 /\ d.type = r.type
                                 /\ d.nargs = IF r.args = "multiple" THEN "-1"
                                              ELSE "unset"
                                 /\ \E k \in 1..Len(command.params) :
                                        command.params[k] = d
                   /\ i \notin Processed
                          => \A k \in 1..Len(decorators) :
                                 decorators[k].deco = "argument"
                                     => decorators[k].name # sig[i].name

\* C3 witness: a completed build with a required parameter of Multiple arity
\* declared with nargs=-1 and a required parameter of Single arity
C3_Witness ==
    /\ pc = "finalised"
    /\ \E i, j \in Processed :
           /\ sig[i].kind \in NamedParamKinds /\ sig[i].default = "empty"
           /\ sig[j].kind \in NamedParamKinds /\ sig[j].default = "empty"
           /\ decorators[DeclIndex(i)] = Argument(sig[i].name, NoType, "-1")
           /\ decorators[DeclIndex(j)] = Argument(sig[j].name, BoolType, "unset")

\* C4: in a completed build self.decorators is the command-creation transform,
\* then one transform for each processed parameter in parameter order, then one
\* option for each extra documented parameter in documentation order.
C4_TransformOrder ==
    pc = "finalised" =>
        /\ Len(decorators) = 1 + Cardinality(Processed) + Len(Extras)
        /\ decorators[1].deco = "command"
        /\ \A k \in 2..Len(decorators) : decorators[k].deco # "command"
        /\ \A i \in Processed :
               \/ decorators[DeclIndex(i)].deco = "lambda"
               \/ decorators[DeclIndex(i)].name \in
                      {sig[i].name, OptionName(sig[i].name), FlagName(sig[i].name)}
        /\ \A m \in 1..Len(Extras) :
               LET d == decorators[1 + Cardinality(Processed) + m]
               IN  d.deco = "option" /\ d.name = OptionName(Extras[m].key)

\* C5: the command-creation transform carries the caller's help unchanged when
\* the caller gave one, and else summary + separator + long description, the
\* separator being two newlines if blank_after_short_description and one
\* otherwise; the finished command carries the same help.
C5_HelpText ==
    LET expected ==
            IF "help" \in DOMAIN command_kwargs THEN command_kwargs.help
            ELSE fn.doc.short_description
                 \o (IF fn.doc.blank_after_short_description
                     THEN <<"\n", "\n">> ELSE <<"\n">>)
                 \o fn.doc.long_description
    IN  /\ decorators # <<>>
            => /\ decorators[1].deco = "command"
               /\ decorators[1].kwargs.help = expected
        /\ pc = "finalised" => command.kwargs.help = expected

\* C5 witness: a finished command whose help was synthesized with a blank line
C5_Witness ==
    /\ pc = "finalised"
    /\ "help" \notin DOMAIN command_kwargs
    /\ fn.doc.blank_after_short_description
    /\ command.kwargs.help = T_short \o <<"\n", "\n">> \o T_long

\* C6: for documentation with a summary and parameter entries but no long
\* description, and no help from the caller, _create_command does not raise
\* and the help of the command is the summary alone.
C6_SummaryOnlyHelp ==
    (/\ pc \notin {"created", "inspected"}
     /\ "help" \notin DOMAIN command_kwargs
     /\ doc.short_description # None
     /\ doc.long_description = None
     /\ doc.params # <<>>)
        => /\ decorators # <<>>
           /\ decorators[1].deco = "command"
           /\ decorators[1].kwargs.help \in
                  {doc.short_description, doc.short_description \o <<"\n">>}

\* C7: for a callable with a variadic-named parameter, _add_kwargs does not
\* fail on a documented name, and after it every extra documented name has
\* exactly one option "--<name>" with its description as help and the parser
\* of its documented type name.
C7_ExtraOptionsAttached ==
    (pc # "created" /\ pc # "inspected" /\ HasVarKeyword) =>
        /\ raised # "ValueError"
        /\ pc \in {"kwargs_added", "finalised"} =>
               \A m \in 1..Len(Extras) :
                   Cardinality(
                       {k \in 1..Len(decorators) :
                           /\ decorators[k].deco = "option"
                           /\ decorators[k].name = OptionName(Extras[m].key)
                           /\ decorators[k].help = Extras[m].value.description
                           /\ decorators[k].type =
                                  _get_param_type_from_str(
                                      Extras[m].value.type_name, NoDoc).type}) = 1

C9_ListAndTupleResolution ==
    ret # NoCall =>
        /\ call.fn = "_get_param_type_from_str" =>
               /\ \A e \in ScalarNames :
                      /\ call.type_name = ListOf(e)
                             => ret = Returned("multiple", ScalarNameParser(e), <<>>)
                      /\ \A f \in ScalarNames :
                             call.type_name = TupleOf2(e, f)
                                 => ret = Returned("single",
                                                   TupleType(<<ScalarNameParser(e),
                                                               ScalarNameParser(f)>>),
                                                   <<>>)
               /\ call.type_name \in {ListOf(ListOf(S_int)), ListOf(TupleOf1(S_int))}
                      => ret.exc = "AssertionError"
        /\ call.fn = "_get_param_type" =>
               /\ \A e \in ScalarClasses :
                      call.param_hint \in {Alias("list", <<e>>),
                                           GenericClass("list", <<e>>)}
                          => ret = Returned("multiple", ScalarClassParser(e), <<>>)
               /\ \A e, f \in ScalarClasses :
                      call.param_hint \in {Alias("tuple", <<e, f>>),
                                           GenericClass("tuple", <<e, f>>)}
                          => ret = Returned("single",
                                            TupleType(<<ScalarClassParser(e),
                                                        ScalarClassParser(f)>>),
                                            <<>>)

\* C10: a parameter whose annotation or documented type name matches no rule,
\* and a parameter with neither annotation nor documented type name (with or
\* without documentation entry), resolves to Single with the unresolved
\* parser, with a warning logged, and without exception.
C10_UnresolvedFallsBack ==
    ret # NoCall =>
        /\ (/\ call.fn = "_get_param_type_from_str"
            /\ call.type_name \in {None, S_empty, S_str})
               => ret.exc = "none" /\ Pair(ret) = [args |-> "single", type |-> NoType]
                  /\ log # <<>>
        /\ (/\ call.fn = "_get_param_type"
            /\ \/ call.param_hint = Class("str")
               \/ /\ call.param_hint = HintNone
                  /\ \/ call.param_doc = NoDoc
                     \/ call.param_doc.type_name \in {None, S_empty, S_str})
               => ret.exc = "none" /\ Pair(ret) = [args |-> "single", type |-> NoType]
                  /\ log # <<>>

\* what C11 speaks of: the type of the parameter a resolver call is about, as
\* its annotation or its documented type name gives it, and its description
WriteIntent(description) ==
    \E w \in {S_save, S_output, S_write} : Contains(description, w)
CalledFor(type_name, cls) ==
    \/ call.fn = "_get_param_type_from_str" /\ call.type_name = type_name
    \/ /\ call.fn = "_get_param_type"
       /\ \/ call.param_hint = Class(cls)
          \/ /\ call.param_hint = HintNone
             /\ call.param_doc # NoDoc
             /\ call.param_doc.type_name = type_name
CalledDescription ==
    IF call.param_doc = NoDoc THEN S_empty ELSE call.param_doc.description

\* C11: a resolver call for a parameter whose annotation or documented type
\* name is the file-handle type returns Single and a file parser of mode "w"
\* if the description contains "save", "output" or "write" and "r" otherwise,
\* with "b" added iff it contains "bytes"; for the filesystem-path type it
\* returns Single and a path parser with writable, not readable, not
\* must-exist iff the description contains one of the three words, and
\* directory-mode instead of file-mode iff it contains "dir".
C11_FileAndPathFromDescription ==
    ret # NoCall =>
        LET d == CalledDescription
        IN  /\ CalledFor(S_FileIO, "io.FileIO")
                => /\ ret.exc = "none"
                   /\ ret.args = "single"
                   /\ ret.type.tag = "File"
                   /\ ret.type.mode =
                          (IF WriteIntent(d) THEN <<"w">> ELSE <<"r">>)
                          \o (IF Contains(d, S_bytes) THEN <<"b">> ELSE <<>>)
            /\ CalledFor(S_Path, "pathlib.Path")
                => /\ ret.exc = "none"
                   /\ ret.args = "single"
                   /\ ret.type.tag = "Path"
                   /\ ret.type.writable = WriteIntent(d)
                   /\ ret.type.readable = ~WriteIntent(d)
                   /\ ret.type.exists = ~WriteIntent(d)
                   /\ ret.type.dir_okay = Contains(d, S_dir)
                   /\ ret.type.file_okay = ~Contains(d, S_dir)

\* what C12 speaks of: the arity a reflected parameter resolves to, the
\* invalid combinations, and the first processed parameter that is one
Resolved(i) == _get_param_type(HintOf(i), DocOf(i))
InvalidCombination(i) ==
    \/ sig[i].kind \notin ParamKinds
    \/ /\ Resolved(i).exc = "none"
       /\ \/ Resolved(i).args = "flag" /\ sig[i].default = "empty"
          \/ sig[i].kind = "VAR_POSITIONAL" /\ Resolved(i).args # "single"
Invalid == {i \in Processed : InvalidCombination(i)}
FirstInvalid == CHOOSE i \in Invalid : \A j \in Invalid : i <= j
\* the processed parameters before i are resolved and declared without exception
DeclaredBefore(i) ==
    \A j \in Processed :
        j < i => /\ Resolved(j).exc = "none"
                 /\ _get_param_decorator(sig[j], Resolved(j).args, Resolved(j).type,
                                         DocOf(j)).exc = "none"

\* C12: when a processed parameter is an invalid combination (Flag arity
\* without default, variadic-positional with an arity other than Single, or a
\* kind outside the five), the build never gets past _add_parameters, never
\* finalises and produces no command; once _add_parameters has run, the build
\* has raised, self.decorators holds no transform for that parameter nor for a
\* later one, and when the parameters before it were declared the exception
\* is the one of that parameter and every parameter before it has its transform.
C12_InvalidCombinationFatal ==
    (pc # "created" /\ Invalid # {}) =>
        LET i == FirstInvalid
        IN  /\ pc \notin AfterParameters
            /\ command = NoCommand
            /\ (pc = "raised" /\ decorators # <<>>) =>
                   /\ raised # "none"
                   /\ Len(decorators) < DeclIndex(i)
                   /\ DeclaredBefore(i) =>
                          /\ raised \in {"AssertionError", "ValueError"}
                          /\ Len(decorators) = DeclIndex(i) - 1

\* C12 witness: the build has raised at a variadic-positional parameter of
\* Multiple arity, with a processed parameter after it left undeclared
C12_Witness ==
    /\ pc = "raised"
    /\ raised = "AssertionError"
    /\ Len(sig) = 2
    /\ sig[1].kind = "VAR_POSITIONAL"
    /\ Resolved(1).args = "multiple"
    /\ Processed = {1, 2}
    /\ Len(decorators) = 1
    /\ command = NoCommand

====
